---- MODULE Spec2Model ----
(***************************************************************************)
(* HandOff<T> (src/lib.rs): a handle HandOff(Arc<Mutex<Option<T>>>) to one *)
(* shared slot.  The model follows one slot from HandOff::new on: the      *)
(* content of the Option, the Mutex (holder and poison flag), the Arc's    *)
(* strong count, the handles each thread owns and each thread's position   *)
(* inside take, clone, drop or Debug::fmt.                                 *)
(***************************************************************************)
EXTENDS Integers, Sequences, FiniteSets

\* ---------------------------------------------------------------- bounds
NThreads == 3
NValues == 2
MaxClones == 2
MaxFmts == 2

Threads == 1..NThreads
Values == 1..NValues

\* Option<T>: None is the empty sequence, Some(v) the one-element sequence.
None == << >>
Some(v) == << v >>
IsSome(o) == o # None
OptionT == {None} \cup {Some(v) : v \in Values}

\* The Mutex is free when nobody holds it.
NoHolder == 0

\* No thread yet.
NoThread == 0

VARIABLES
    created,    \* the value given to HandOff::new
    value,      \* the Option<T> inside the Mutex
    holder,     \* the thread holding the MutexGuard, or NoHolder
    poisoned,   \* the Mutex's poison flag
    strong,     \* the Arc's strong count
    slots,      \* number of slots allocated (Arc::new calls)
    reclaimed,  \* the Arc's inner slot has been dropped
    destroyed,  \* number of times the destructor of the T value has run
    handles,    \* handles[t]: HandOff handles owned by thread t
    pc,         \* pc[t]: where thread t is
    result,     \* result[t]: what locked_value.take() gave thread t's take
    shown,      \* shown[t]: the "value" field thread t's running fmt has written
    returns,    \* the results of the take calls that returned, in return order
    clones,     \* number of clone calls
    drops,      \* number of handles dropped without take
    panics,     \* the operations a panic has propagated out of
    first,      \* the thread whose take was the first to acquire the lock
    winner,     \* the thread whose take returned present
    fmts        \* number of fmt calls

vars == << created, value, holder, poisoned, strong, slots, reclaimed, destroyed,
           handles, pc, result, shown, returns, clones, drops, panics,
           first, winner, fmts >>

TakePcs == {"take_lock", "take_ok", "take_clear", "take_err", "take_unlock", "take_drop"}
FmtPcs == {"fmt_lock", "fmt_ok", "fmt_user", "fmt_err", "fmt_unlock"}
Pcs == {"idle"} \cup TakePcs \cup FmtPcs

TypeOK ==
    /\ created \in Values
    /\ value \in OptionT
    /\ holder \in Threads \cup {NoHolder}
    /\ poisoned \in BOOLEAN
    /\ strong \in 0..(MaxClones + 1)
    /\ slots \in Nat
    /\ reclaimed \in BOOLEAN
    /\ destroyed \in Nat
    /\ handles \in [Threads -> 0..(MaxClones + 1)]
    /\ pc \in [Threads -> Pcs]
    /\ result \in [Threads -> OptionT]
    /\ shown \in [Threads -> OptionT]
    /\ returns \in Seq(OptionT)
    /\ clones \in 0..MaxClones
    /\ drops \in Nat
    /\ panics \subseteq {"take", "fmt"}
    /\ first \in Threads \cup {NoThread}
    /\ winner \in Threads \cup {NoThread}
    /\ fmts \in 0..MaxFmts

\* HandOff::new(val): Self(Arc::new(Mutex::new(Some(val)))); the creating
\* thread (thread 1) owns the one handle.
Init ==
    /\ created \in Values
    /\ value = Some(created)
    /\ holder = NoHolder
    /\ poisoned = FALSE
    /\ strong = 1
    /\ slots = 1
    /\ reclaimed = FALSE
    /\ destroyed = 0
    /\ handles = [t \in Threads |-> IF t = 1 THEN 1 ELSE 0]
    /\ pc = [t \in Threads |-> "idle"]
    /\ result = [t \in Threads |-> None]
    /\ shown = [t \in Threads |-> None]
    /\ returns = << >>
    /\ clones = 0
    /\ drops = 0
    /\ panics = {}
    /\ first = NoThread
    /\ winner = NoThread
    /\ fmts = 0

\* ------------------------------------------------------------ Arc / Mutex

\* ArcDrop as it would be if the last drop ran the value's destructor even
\* when the value had been moved out.
ArcDropTwice ==
    /\ strong' = strong - 1
    /\ IF strong = 1
       THEN /\ reclaimed' = TRUE
            /\ destroyed' = destroyed + 1
            /\ value' = None
       ELSE UNCHANGED << reclaimed, destroyed, value >>

\* ArcDrop as it would be if every handle owned the content: any drop
\* destroys the value.
ArcDropEager ==
    /\ strong' = strong - 1
    /\ reclaimed' = (strong = 1)
    /\ destroyed' = IF IsSome(value) THEN destroyed + 1 ELSE destroyed
    /\ value' = None

\* ArcDrop as it would be if the last drop forgot the content.
ArcDropLeaks ==
    /\ strong' = strong - 1
    /\ IF strong = 1
       THEN /\ reclaimed' = TRUE
            /\ value' = None
            /\ UNCHANGED destroyed
       ELSE UNCHANGED << reclaimed, destroyed, value >>

\* Drop of one Arc<Mutex<Option<T>>>: the strong count goes down by one and
\* the last one drops the Mutex and the Option in it, running the destructor
\* of a value that is still there.
ArcDrop ==
    /\ strong' = strong - 1
    /\ IF strong = 1
       THEN /\ reclaimed' = TRUE
            /\ destroyed' = IF IsSome(value) THEN destroyed + 1 ELSE destroyed
            /\ value' = None
       ELSE UNCHANGED << reclaimed, destroyed, value >>

\* MutexLock as it would be if the lock did not exclude other threads.
MutexLockShared(t, okPc, errPc) ==
    /\ holder' = t
    /\ pc' = [pc EXCEPT ![t] = IF poisoned THEN errPc ELSE okPc]

\* MutexLock as it would be if waiting threads were served in thread order.
MutexLockByRank(t, okPc, errPc) ==
    /\ holder = NoHolder
    /\ \A u \in Threads : u < t => pc[u] \notin {"take_lock", "fmt_lock"}
    /\ holder' = t
    /\ pc' = [pc EXCEPT ![t] = IF poisoned THEN errPc ELSE okPc]

\* MutexLock as it would be if a poisoned lock were recovered (into_inner).
MutexLockIgnoresPoison(t, okPc, errPc) ==
    /\ holder = NoHolder
    /\ holder' = t
    /\ pc' = [pc EXCEPT ![t] = okPc]

\* Mutex::lock: blocks until the mutex is free, then holds it; the result is
\* Err (still holding the guard) when the mutex is poisoned.
MutexLock(t, okPc, errPc) ==
    /\ holder = NoHolder
    /\ holder' = t
    /\ pc' = [pc EXCEPT ![t] = IF poisoned THEN errPc ELSE okPc]

\* GuardDrop as it would be if the guard were forgotten, not dropped.
GuardDropLeaks(t) ==
    UNCHANGED holder

\* Drop of thread t's MutexGuard when t is not panicking: the mutex is free.
GuardDrop(t) ==
    holder' = NoHolder

\* Drop of thread t's MutexGuard while t is unwinding from a panic: the mutex
\* is poisoned and free.
GuardDropPanicking(t) ==
    /\ holder' = NoHolder
    /\ poisoned' = TRUE

\* ------------------------------------------------------------------ clone

\* Clone as it would be if it built a slot of its own for the new handle.
CloneNewSlot(t, u) ==
    /\ pc[t] = "idle"
    /\ handles[t] > 0
    /\ clones < MaxClones
    /\ slots' = slots + 1
    /\ handles' = [handles EXCEPT ![u] = @ + 1]
    /\ clones' = clones + 1
    /\ UNCHANGED << created, value, holder, poisoned, strong, reclaimed, destroyed,
                    pc, result, shown, returns, drops, panics,
                    first, winner, fmts >>

\* Clone for HandOff: Self(self.0.clone()), an Arc clone; the new handle is
\* kept by the thread or moved to another one.
Clone(t, u) ==
    /\ pc[t] = "idle"
    /\ handles[t] > 0
    /\ clones < MaxClones
    /\ strong' = strong + 1
    /\ handles' = [handles EXCEPT ![u] = @ + 1]
    /\ clones' = clones + 1
    /\ UNCHANGED << created, value, holder, poisoned, slots, reclaimed, destroyed,
                    pc, result, shown, returns, drops, panics,
                    first, winner, fmts >>

\* A handle goes out of scope without take.
Drop(t) ==
    /\ pc[t] = "idle"
    /\ handles[t] > 0
    /\ handles' = [handles EXCEPT ![t] = @ - 1]
    /\ drops' = drops + 1
    /\ ArcDrop
    /\ UNCHANGED << created, holder, poisoned, slots, pc, result, shown, returns,
                    clones, panics,
                    first, winner, fmts >>

\* ------------------------------------------------------------------- take

\* take(self) is called: the handle moves into the call.
TakeCall(t) ==
    /\ pc[t] = "idle"
    /\ handles[t] > 0
    /\ pc' = [pc EXCEPT ![t] = "take_lock"]
    /\ UNCHANGED << created, value, holder, poisoned, strong, slots, reclaimed,
                    destroyed, handles, result, shown, returns, clones, drops, panics,
                    first, winner, fmts >>

\* if let Ok(mut locked_value) = self.0.lock()
TakeLock(t) ==
    /\ pc[t] = "take_lock"
    /\ MutexLock(t, "take_ok", "take_err")
    /\ first' = IF first = NoThread THEN t ELSE first
    /\ UNCHANGED << created, value, poisoned, strong, slots, reclaimed, destroyed,
                    handles, result, shown, returns, clones, drops, panics,
                    winner, fmts >>

\* locked_value.take() is Option::take, mem::replace(self, None): first the
\* old content is read out of the slot ...
TakeRead(t) ==
    /\ pc[t] = "take_ok"
    /\ result' = [result EXCEPT ![t] = value]
    /\ pc' = [pc EXCEPT ![t] = "take_clear"]
    /\ UNCHANGED << created, value, holder, poisoned, strong, slots, reclaimed,
                    destroyed, handles, shown, returns, clones, drops, panics,
                    first, winner, fmts >>

\* TakeClear as it would be if the content were copied out, not moved.
TakeClearKeeps(t) ==
    /\ pc[t] = "take_clear"
    /\ pc' = [pc EXCEPT ![t] = "take_unlock"]
    /\ UNCHANGED << created, value, holder, poisoned, strong, slots, reclaimed,
                    destroyed, handles, result, shown, returns, clones, drops, panics,
                    first, winner, fmts >>

\* ... then None is written in its place.
TakeClear(t) ==
    /\ pc[t] = "take_clear"
    /\ value' = None
    /\ pc' = [pc EXCEPT ![t] = "take_unlock"]
    /\ UNCHANGED << created, holder, poisoned, strong, slots, reclaimed, destroyed,
                    handles, result, shown, returns, clones, drops, panics,
                    first, winner, fmts >>

\* TakeNone as it would be if the Err were recovered with into_inner and the
\* content taken.
TakeNoneRecovers(t) ==
    /\ pc[t] = "take_err"
    /\ result' = [result EXCEPT ![t] = value]
    /\ value' = None
    /\ pc' = [pc EXCEPT ![t] = "take_unlock"]
    /\ UNCHANGED << created, holder, poisoned, strong, slots, reclaimed, destroyed,
                    handles, shown, returns, clones, drops, panics,
                    first, winner, fmts >>

\* else { None }: the lock result was Err
TakeNone(t) ==
    /\ pc[t] = "take_err"
    /\ result' = [result EXCEPT ![t] = None]
    /\ pc' = [pc EXCEPT ![t] = "take_unlock"]
    /\ UNCHANGED << created, value, holder, poisoned, strong, slots, reclaimed,
                    destroyed, handles, shown, returns, clones, drops, panics,
                    first, winner, fmts >>

\* TakeUnlock as it would be if the guard outlived the call.
TakeUnlockKeeps(t) ==
    /\ pc[t] = "take_unlock"
    /\ pc' = [pc EXCEPT ![t] = "take_drop"]
    /\ UNCHANGED << created, value, holder, poisoned, strong, slots, reclaimed,
                    destroyed, handles, result, shown, returns, clones, drops, panics,
                    first, winner, fmts >>

\* The guard (bound by the pattern, or inside the PoisonError) is dropped at
\* the end of the if let.
TakeUnlock(t) ==
    /\ pc[t] = "take_unlock"
    /\ GuardDrop(t)
    /\ pc' = [pc EXCEPT ![t] = "take_drop"]
    /\ UNCHANGED << created, value, poisoned, strong, slots, reclaimed, destroyed,
                    handles, result, shown, returns, clones, drops, panics,
                    first, winner, fmts >>

\* TakeReturn as it would be if the handle were forgotten, not dropped.
TakeReturnLeaks(t) ==
    /\ pc[t] = "take_drop"
    /\ handles' = [handles EXCEPT ![t] = @ - 1]
    /\ returns' = Append(returns, result[t])
    /\ winner' = IF IsSome(result[t]) THEN t ELSE winner
    /\ result' = [result EXCEPT ![t] = None]
    /\ pc' = [pc EXCEPT ![t] = "idle"]
    /\ UNCHANGED << created, value, holder, poisoned, strong, slots, reclaimed,
                    destroyed, shown, clones, drops, panics, first, fmts >>

\* The parameter self is dropped after the body and the Option is returned.
TakeReturn(t) ==
    /\ pc[t] = "take_drop"
    /\ handles' = [handles EXCEPT ![t] = @ - 1]
    /\ ArcDrop
    /\ returns' = Append(returns, result[t])
    /\ winner' = IF IsSome(result[t]) THEN t ELSE winner
    /\ result' = [result EXCEPT ![t] = None]
    /\ pc' = [pc EXCEPT ![t] = "idle"]
    /\ UNCHANGED << created, holder, poisoned, slots, shown, clones, drops, panics,
                    first, fmts >>

\* -------------------------------------------------------------- Debug::fmt

\* fmt(&self, fmt) is called: fmt.debug_struct("HandOff")
FmtCall(t) ==
    /\ pc[t] = "idle"
    /\ handles[t] > 0
    /\ fmts < MaxFmts
    /\ fmts' = fmts + 1
    /\ pc' = [pc EXCEPT ![t] = "fmt_lock"]
    /\ UNCHANGED << created, value, holder, poisoned, strong, slots, reclaimed,
                    destroyed, handles, result, shown, returns, clones, drops, panics,
                    first, winner >>

\* let locked_value = self.0.lock(); match locked_value
FmtLock(t) ==
    /\ pc[t] = "fmt_lock"
    /\ MutexLock(t, "fmt_ok", "fmt_err")
    /\ UNCHANGED << created, value, poisoned, strong, slots, reclaimed, destroyed,
                    handles, result, shown, returns, clones, drops, panics,
                    first, winner, fmts >>

\* Ok(val) => builder.field("value", &val): the guard's Debug formats the
\* Option; for Some(v) that enters the Debug::fmt of T, for None it writes None.
FmtField(t) ==
    /\ pc[t] = "fmt_ok"
    /\ pc' = [pc EXCEPT ![t] = IF IsSome(value) THEN "fmt_user" ELSE "fmt_unlock"]
    /\ UNCHANGED << created, value, holder, poisoned, strong, slots, reclaimed,
                    destroyed, handles, result, shown, returns, clones, drops, panics,
                    first, winner, fmts >>

\* FmtUserReturn as it would be if formatting moved the value out to show it.
FmtUserReturnTakes(t) ==
    /\ pc[t] = "fmt_user"
    /\ shown' = [shown EXCEPT ![t] = value]
    /\ value' = None
    /\ pc' = [pc EXCEPT ![t] = "fmt_unlock"]
    /\ UNCHANGED << created, holder, poisoned, strong, slots, reclaimed, destroyed,
                    handles, result, returns, clones, drops, panics,
                    first, winner, fmts >>

\* The Debug::fmt of T returns: the field shows Some(v).
FmtUserReturn(t) ==
    /\ pc[t] = "fmt_user"
    /\ shown' = [shown EXCEPT ![t] = value]
    /\ pc' = [pc EXCEPT ![t] = "fmt_unlock"]
    /\ UNCHANGED << created, value, holder, poisoned, strong, slots, reclaimed,
                    destroyed, handles, result, returns, clones, drops, panics,
                    first, winner, fmts >>

\* The Debug::fmt of T panics: unwinding drops the guard, which poisons the
\* mutex, and the panic leaves fmt.
FmtUserPanic(t) ==
    /\ pc[t] = "fmt_user"
    /\ GuardDropPanicking(t)
    /\ shown' = [shown EXCEPT ![t] = None]
    /\ panics' = panics \cup {"fmt"}
    /\ pc' = [pc EXCEPT ![t] = "idle"]
    /\ UNCHANGED << created, value, strong, slots, reclaimed, destroyed, handles,
                    result, returns, clones, drops,
                    first, winner, fmts >>

\* _ => builder.field("value", &None::<T>)
FmtFieldNone(t) ==
    /\ pc[t] = "fmt_err"
    /\ shown' = [shown EXCEPT ![t] = None]
    /\ pc' = [pc EXCEPT ![t] = "fmt_unlock"]
    /\ UNCHANGED << created, value, holder, poisoned, strong, slots, reclaimed,
                    destroyed, handles, result, returns, clones, drops, panics,
                    first, winner, fmts >>

\* The guard is dropped (end of the Ok arm, or end of fmt for the Err) and
\* builder.finish() returns.
FmtFinish(t) ==
    /\ pc[t] = "fmt_unlock"
    /\ GuardDrop(t)
    /\ shown' = [shown EXCEPT ![t] = None]
    /\ pc' = [pc EXCEPT ![t] = "idle"]
    /\ UNCHANGED << created, value, poisoned, strong, slots, reclaimed, destroyed,
                    handles, result, returns, clones, drops, panics,
                    first, winner, fmts >>

\* ---------------------------------------------------------- specifications

TakeStep(t) ==
    \/ TakeCall(t)
    \/ TakeLock(t)
    \/ TakeRead(t)
    \/ TakeClear(t)
    \/ TakeNone(t)
    \/ TakeUnlock(t)
    \/ TakeReturn(t)

FmtStep(t) ==
    \/ FmtCall(t)
    \/ FmtLock(t)
    \/ FmtField(t)
    \/ FmtUserReturn(t)
    \/ FmtUserPanic(t)
    \/ FmtFieldNone(t)
    \/ FmtFinish(t)

Next ==
    \/ \E t \in Threads, u \in Threads : Clone(t, u)
    \/ \E t \in Threads : Drop(t)
    \/ \E t \in Threads : TakeStep(t)
    \/ \E t \in Threads : FmtStep(t)

Spec == Init /\ [][Next]_vars

\* The steps of thread t that are code of HandOff inside a call: the thread
\* scheduler runs them when they can run.  The calls themselves are the
\* caller's choice, and the Debug::fmt of T is user code that need not end.
LibStep(t) ==
    \/ TakeLock(t)
    \/ TakeRead(t)
    \/ TakeClear(t)
    \/ TakeNone(t)
    \/ TakeUnlock(t)
    \/ TakeReturn(t)
    \/ FmtLock(t)
    \/ FmtField(t)
    \/ FmtFieldNone(t)
    \/ FmtFinish(t)

Fairness == \A t \in Threads : WF_vars(LibStep(t))

SpecLive == Init /\ [][Next]_vars /\ Fairness

\* The scenario of the take tests: handles are cloned, moved between threads,
\* dropped and taken; nothing formats a handle, so nothing panics under the
\* lock and lock() never returns Err.
TakeStepOk(t) ==
    \/ TakeCall(t)
    \/ TakeLock(t)
    \/ TakeRead(t)
    \/ TakeClear(t)
    \/ TakeUnlock(t)
    \/ TakeReturn(t)

NextTake ==
    \/ \E t \in Threads, u \in Threads : Clone(t, u)
    \/ \E t \in Threads : Drop(t)
    \/ \E t \in Threads : TakeStepOk(t)

SpecTake == Init /\ [][NextTake]_vars

\* A sequential execution of that scenario: a thread acts only while every
\* other thread is outside any call.
Quiet(t) == \A u \in Threads \ {t} : pc[u] = "idle"

NextSeq ==
    \/ \E t \in Threads, u \in Threads : Quiet(t) /\ Clone(t, u)
    \/ \E t \in Threads : Quiet(t) /\ Drop(t)
    \/ \E t \in Threads : Quiet(t) /\ TakeStepOk(t)

SpecSeq == Init /\ [][NextSeq]_vars

\* ------------------------------------------------------------ observations

\* The take calls that have returned present.
PresentReturned == {i \in DOMAIN returns : IsSome(returns[i])}

\* The threads inside a take call.
Taking == {t \in Threads : pc[t] \in TakePcs}

\* Number of take calls made so far.
TakesCalled == Len(returns) + Cardinality(Taking)

\* The threads whose take has moved the value out of the slot and not yet
\* returned it.
Carrying == {t \in Threads : pc[t] \in {"take_unlock", "take_drop"} /\ IsSome(result[t])}

\* A take has removed the value from the slot.
Removed == Carrying # {} \/ PresentReturned # {}

\* Number of handles the threads own.
RECURSIVE CountHandles(_)
CountHandles(S) ==
    IF S = {} THEN 0
    ELSE LET t == CHOOSE x \in S : TRUE IN handles[t] + CountHandles(S \ {t})

TotalHandles == CountHandles(Threads)

\* The places the value given to new is in: the slot, a take that carries it
\* out, a take that returned it, or destroyed.
Places ==
    (IF IsSome(value) THEN 1 ELSE 0) + Cardinality(Carrying)
        + Cardinality(PresentReturned) + destroyed

\* The positions at which a thread owns a MutexGuard of the slot.
GuardPcs ==
    {"take_ok", "take_clear", "take_err", "take_unlock",
     "fmt_ok", "fmt_user", "fmt_err", "fmt_unlock"}

GuardOwners == {t \in Threads : pc[t] \in GuardPcs}

\* The Debug::fmt of T is running in thread t.
InUserFmt(t) == pc[t] = "fmt_user"

\* ------------------------------------------------------------------ claims

\* C1: whatever create, clone, take, drop and Debug-format operations the
\* threads interleave, at most one take call has returned present.
C1_AtMostOnePresent == Cardinality(PresentReturned) <= 1

C1_Witness == Cardinality(PresentReturned) = 1 /\ Len(returns) = 3

\* C2: when the takes racing on the handles of the slot have all returned
\* (two or more of them), exactly one has returned present and the others
\* absent, for every schedule.
C2_ExactlyOneWinner ==
    (Len(returns) >= 2 /\ Taking = {}) => Cardinality(PresentReturned) = 1

\* Every handle was taken, and a loser of the race returned before the winner.
C2_Witness ==
    /\ Len(returns) = MaxClones + 1
    /\ Taking = {}
    /\ returns[1] = None
    /\ Cardinality(PresentReturned) = 1

\* C3: once a take has removed the value the slot is absent in every later
\* state, and every result a take obtains from then on is absent.
C3_StaysAbsent ==
    /\ [](Removed => value = None)
    /\ [][Removed => \A t \in Threads : result'[t] # result[t] => result'[t] = None]_vars

C3_Witness ==
    \E i, j \in DOMAIN returns : i < j /\ IsSome(returns[i]) /\ returns[j] = None

\* C4: in a sequential execution the first take returns present with the
\* value given to new, and every later take returns absent.
C4_FirstTakeGetsValue ==
    \A i \in DOMAIN returns : returns[i] = IF i = 1 THEN Some(created) ELSE None

C4_Witness == Len(returns) = 3 /\ clones = 2

\* C5: no panic leaves take; a take that finds the lock poisoned goes to the
\* absent branch, where it leaves the slot content as it is and gets absent;
\* the content of a poisoned slot changes only when the slot is reclaimed.
C5_PoisonedTakeAbsent ==
    [][/\ "take" \notin panics'
       /\ (poisoned /\ ~reclaimed') => value' = value
       /\ \A t \in Threads :
            /\ (pc[t] = "take_lock" /\ pc'[t] # "take_lock" /\ poisoned)
                   => pc'[t] = "take_err"
            /\ pc[t] = "take_err"
                   => /\ value' = value
                      /\ pc'[t] # "take_err"
                            => pc'[t] = "take_unlock" /\ result'[t] = None]_vars

\* A take has returned absent from a poisoned lock with the value in the slot.
C5_Witness == poisoned /\ IsSome(value) /\ Len(returns) >= 1

\* C6: the value given to new is in exactly one place: the slot, the one take
\* that moved it out, or destroyed.
C6_ExactlyOnePlace ==
    /\ Places = 1
    /\ value \in {None, Some(created)}
    /\ \A t \in Carrying : result[t] = Some(created)
    /\ \A i \in PresentReturned : returns[i] = Some(created)

C6_Witness == Carrying # {} /\ value = None /\ destroyed = 0

\* C7: a clone adds one handle and one share to the same slot and changes
\* nothing else: the slot content is as before and no slot is created.
C7_CloneOnlyShares ==
    [][clones' # clones =>
          /\ strong' = strong + 1
          /\ TotalHandles' = TotalHandles + 1
          /\ slots' = slots
          /\ value' = value
          /\ UNCHANGED << holder, poisoned, reclaimed, destroyed, returns, result >>]_vars

\* Two clones were made and a take has returned the value.
C7_Witness == clones = 2 /\ PresentReturned # {} /\ strong = 2

\* C8: a take that is the only one called returns present with the value
\* given to new, and a drop that leaves a handle leaves the slot content.
C8_SoleTakeGetsValue ==
    /\ []((TakesCalled = 1 /\ Len(returns) = 1) => returns[1] = Some(created))
    /\ [][(drops' # drops /\ strong > 1) => value' = value]_vars

C8_Witness == TakesCalled = 1 /\ Len(returns) = 1 /\ drops = 2 /\ clones = 2

\* C9: while no take is called the value is in the slot and not destroyed
\* as long as a handle is live, and destroyed exactly once when none is.
C9_DestroyedAtLastDrop ==
    TakesCalled = 0 =>
        /\ destroyed = (IF strong = 0 THEN 1 ELSE 0)
        /\ strong > 0 => (value = Some(created) /\ ~reclaimed)
        /\ strong = 0 => (value = None /\ reclaimed)

C9_Witness == TakesCalled = 0 /\ strong = 0 /\ clones = 2

C12_AccessUnderLock ==
    /\ [](/\ Cardinality(GuardOwners) <= 1
          /\ \A t \in GuardOwners : holder = t
          /\ \A t \in Threads : pc[t] = "take_clear" => result[t] = value)
    /\ [][value' # value =>
             \/ /\ holder # NoHolder
                /\ pc[holder] = "take_clear"
                /\ pc'[holder] = "take_unlock"
             \/ strong = 1 /\ reclaimed']_vars

\* A take is between its check and its removal while another call waits.
C12_Witness ==
    \E t, u \in Threads :
        pc[t] = "take_clear" /\ IsSome(value) /\ pc[u] \in {"take_lock", "fmt_lock"}

\* C13: whenever the lock is free, each caller waiting in take can be the
\* next to acquire it, whatever its thread or handle; the take that returns
\* present is the one that acquired the lock first.
C13_FirstLockerWins ==
    /\ \A t \in Threads :
          (pc[t] = "take_lock" /\ holder = NoHolder) => ENABLED TakeLock(t)
    /\ Carrying \subseteq {first}
    /\ winner # NoThread => winner = first

\* The thread created last won, and a loser returned before it.
C13_Witness ==
    /\ winner = NThreads
    /\ Len(returns) = MaxClones + 1
    /\ returns[1] = None

\* C14: a poisoned lock stays poisoned; while the value is in a poisoned
\* slot every take result is absent, nobody has won, and the value leaves the
\* slot only by being destroyed when the last handle goes.
C14_PoisonIsPermanent ==
    [][poisoned =>
          /\ poisoned'
          /\ IsSome(value) =>
                /\ \A t \in Threads : result'[t] = None
                /\ returns' \in {returns, Append(returns, None)}
                /\ winner' = NoThread
                /\ \/ value' = value
                   \/ /\ strong = 1
                      /\ strong' = 0
                      /\ value' = None
                      /\ destroyed' = destroyed + 1]_vars

\* Takes returned absent from the poisoned slot and the value was destroyed
\* with the last handle.
C14_Witness ==
    poisoned /\ destroyed = 1 /\ Len(returns) >= 1 /\ PresentReturned = {}

\* Thread t takes a step of a fmt call.
IsFmtStep(t) == (pc[t] \in FmtPcs \/ pc'[t] \in FmtPcs) /\ pc'[t] # pc[t]

\* What every step of a fmt call keeps, and what fmt reports: the content and
\* the shares as they were; no panic out of fmt's own code; the field is
\* written by the holder and shows the content unless the lock is poisoned.
FmtFrame(t) ==
    /\ value' = value
    /\ strong' = strong
    /\ returns' = returns
    /\ reclaimed' = reclaimed
    /\ panics' # panics => pc[t] = "fmt_user"
    /\ pc'[t] = "fmt_unlock"
          => holder = t /\ shown'[t] = (IF poisoned THEN None ELSE value)

C16_ShareCount ==
    /\ strong = TotalHandles
    /\ strong = 1 + clones - Len(returns) - drops
    /\ reclaimed <=> strong = 0
    /\ reclaimed => holder = NoHolder /\ \A t \in Threads : pc[t] = "idle"
    /\ \A t \in Threads :
          /\ pc[t] # "idle" => handles[t] > 0
          /\ pc[t] = "take_drop" => holder # t

\* Every handle was consumed by a take, the last of which reclaimed the slot.
C16_Witness == reclaimed /\ drops = 0 /\ clones = MaxClones /\ Len(returns) = MaxClones + 1

====
